---- MODULE Spec2Model ----
(***************************************************************************)
(* Model of custom_components/modbus-fancoil/climate.py: the Fancoil       *)
(* climate entity, which maps climate operations onto Modbus holding       *)
(* registers through ModbusHub.async_pb_call.                              *)
(*                                                                         *)
(* Every coroutine of the entity is cut at its awaits: one action issues   *)
(* the hub call (Start..., or the continuation before it), HubCall         *)
(* performs it on the device, and the next continuation runs the code up   *)
(* to the following await or the return.                                   *)
(*                                                                         *)
(* Numbers: register values and Python ints are integers; Python floats    *)
(* holding temperatures are fixed point, in hundredths of a degree.        *)
(* An attribute that may be None is a sequence: << >> is None, <<v>> is v. *)
(***************************************************************************)
EXTENDS Integers, Sequences, FiniteSets, TLC

\* ------------------------------------------------------------ bounds

\* Operations started in one behaviour.
MaxOps == 2

\* Values the device may hold at start-up.
InitFlags == {10, 4, 129}
InitSeason == {3, 5, 9}
InitTarget == {220}
InitCurrent == {200}
InitSpeed == {3}
InitWater == {45}

\* Arguments the host may pass: temperatures in hundredths of a degree
\* (<< >> is a call without ATTR_TEMPERATURE).
TempInputs == {<< >>, <<2150>>, <<2156>>, <<0>>}
HvacInputs == {"cool", "heat", "off", "heat_cool"}
FanInputs == {"Auto", "Silent", "Night", "High", "Turbo"}

\* Tasks of the event loop that may run an operation of the entity; Spec
\* runs one operation at a time, on the first.
Tasks == {"t1", "t2"}
SeqTasks == {"t1"}

\* ------------------------------------------------------------ constants

REG_CURRENT == 0
REG_WATER == 1
REG_SPEED == 15
REG_PRG == 201
REG_TARGET == 231
REG_SEASON == 233
Registers == {REG_CURRENT, REG_WATER, REG_SPEED, REG_PRG, REG_TARGET, REG_SEASON}

\* A holding register is 16 bits wide.
WordSize == 65536

attr_fan_modes == <<"Auto", "Silent", "Night", "High">>
attr_hvac_modes == {"cool", "heat", "off"}

NoneVal == << >>
Some(v) == <<v>>

VARIABLES
    dev,                        \* the device's holding registers
    attr_target_temperature,    \* self._attr_target_temperature
    attr_current_temperature,   \* self._attr_current_temperature
    attr_actual_air_speed,      \* self._attr_actual_air_speed (fan_speed)
    water_temperature,          \* self._water_temperature
    attr_fan_mode,              \* self._attr_fan_mode
    attr_hvac_mode,             \* self._attr_hvac_mode
    pc,                         \* per task: the await it is suspended at
    op,                         \* per task: the operation it runs or ran last
    arg,                        \* per task: the operation's argument
    local,                      \* per task: the coroutine's local variables
    req,                        \* per task: the hub call awaited, not yet performed
    ret,                        \* per task: what the hub call returned
    pre,                        \* per task: the cached state when the operation began
    log,                        \* per task: the hub calls the operation made
    outcome,                    \* per task: how the operation ended
    nops                        \* operations started

cache == <<attr_target_temperature, attr_current_temperature,
           attr_actual_air_speed, water_temperature, attr_fan_mode,
           attr_hvac_mode>>
taskvars == <<pc, op, arg, local, req, ret, pre, log, outcome>>
vars == <<dev, cache, taskvars, nops>>

\* ------------------------------------------------------------ pure code

\* Fancoil._is_set: x & 1 << n != 0, on Python's unbounded two's complement
\* integers (floor division gives the bit of a negative x as well).
is_set(x, n) == (x \div (2 ^ n)) % 2 # 0


\* A slip for or_bit7: curr_prg + (1 << 7).
or_bit7_added(x) == x + 128

\* curr_prg | (1 << 7)
or_bit7(x) == IF is_set(x, 7) THEN x ELSE x + 128


\* A slip for and_not_bit7: the flags are written back as read.
and_not_bit7_kept(x) == x

\* curr_prg & ~(1 << 7)
and_not_bit7(x) == IF is_set(x, 7) THEN x - 128 ELSE x

\* curr_prg & ~0b111
and_not_0b111(x) == x - (x % 8)

\* int(target_temperature * 10): truncation toward zero of the tenths,
\* the temperature given in hundredths.
int_times10(v) == IF v >= 0 THEN v \div 10 ELSE -((-v) \div 10)

NoReq == [kind |-> "none", reg |-> 0, val |-> 0]
ReadReq(r) == [kind |-> "read", reg |-> r, val |-> 0]
WriteReq(r, v) == [kind |-> "write", reg |-> r, val |-> v]
NoRet == [ok |-> FALSE, val |-> 0]

\* _async_read_int16_from_register, after the await: -1 when the hub
\* returned None, else int(result.registers[0]).
read_int16(r) == IF ~r.ok THEN -1 ELSE r.val

\* _async_read_temp_from_register, after the await; the result in hundredths.
\* float(x) that is 0 gives -1 (degrees); anything else x / 10.0.
read_temp(r) ==
    LET result == read_int16(r)
    IN  IF result = 0 THEN -100 ELSE result * 10


\* A slip for write_ok: the result of the write is not looked at.
write_ok_unchecked(r) == TRUE

\* _async_write_int16_to_register: the truth value of what the hub returned.
write_ok(r) == r.ok


\* A slip for fan_index_of_prg: the last branch does not test bit 2.
fan_index_of_prg_no_bit2(prg) ==
    IF ~is_set(prg, 0) /\ ~is_set(prg, 1) /\ ~is_set(prg, 2) THEN 1
    ELSE IF is_set(prg, 0) /\ ~is_set(prg, 1) /\ ~is_set(prg, 2) THEN 2
    ELSE IF ~is_set(prg, 0) /\ is_set(prg, 1) /\ ~is_set(prg, 2) THEN 3
    ELSE IF is_set(prg, 0) /\ is_set(prg, 1) THEN 4
    ELSE 0

\* The if/elif chain of async_update over bits 0, 1, 2 of prg: the index into
\* _attr_fan_modes (1-based here), or 0 for the else branch (invalid PRG).
fan_index_of_prg(prg) ==
    IF ~is_set(prg, 0) /\ ~is_set(prg, 1) /\ ~is_set(prg, 2) THEN 1
    ELSE IF is_set(prg, 0) /\ ~is_set(prg, 1) /\ ~is_set(prg, 2) THEN 2
    ELSE IF ~is_set(prg, 0) /\ is_set(prg, 1) /\ ~is_set(prg, 2) THEN 3
    ELSE IF is_set(prg, 0) /\ is_set(prg, 1) /\ ~is_set(prg, 2) THEN 4
    ELSE 0


\* A slip for hvac_of_season: season 3 is not taken for heat.
hvac_of_season_only_0(season) ==
    IF season = 5 THEN "cool"
    ELSE IF season = 0 THEN "heat"
    ELSE "invalid"

\* The if/elif chain of async_update over season: the mode, or "invalid".
hvac_of_season(season) ==
    IF season = 5 THEN "cool"
    ELSE IF season \in {3, 0} THEN "heat"
    ELSE "invalid"

\* self._attr_fan_modes.index(fan_mode), 0-based; -1 stands for ValueError.
fan_modes_index(fan_mode) ==
    IF \E i \in 1..Len(attr_fan_modes) : attr_fan_modes[i] = fan_mode
    THEN (CHOOSE i \in 1..Len(attr_fan_modes) : attr_fan_modes[i] = fan_mode) - 1
    ELSE -1


\* A slip for prg_with_fan: Silent encoded as 0b100.
prg_with_fan_silent_0b100(curr_prg, index) ==
    IF index = 0 THEN and_not_0b111(curr_prg)
    ELSE IF index = 1 THEN and_not_0b111(curr_prg) + 4
    ELSE IF index = 2 THEN and_not_0b111(curr_prg) + 2
    ELSE and_not_0b111(curr_prg) + 3

\* The if/elif chain of async_set_fan_mode over index: the new curr_prg.
prg_with_fan(curr_prg, index) ==
    IF index = 0 THEN and_not_0b111(curr_prg)
    ELSE IF index = 1 THEN and_not_0b111(curr_prg) + 1
    ELSE IF index = 2 THEN and_not_0b111(curr_prg) + 2
    ELSE and_not_0b111(curr_prg) + 3

\* The season async_set_hvac_mode writes for a mode, -1 for the else branch.
season_of_hvac(hvac_mode) ==
    IF hvac_mode = "cool" THEN 5
    ELSE IF hvac_mode = "heat" THEN 0
    ELSE -1

\* ------------------------------------------------------------ state

Snapshot ==
    [target_temperature |-> attr_target_temperature,
     current_temperature |-> attr_current_temperature,
     fan_speed |-> attr_actual_air_speed,
     water_temperature |-> water_temperature,
     fan_mode |-> attr_fan_mode,
     hvac_mode |-> attr_hvac_mode]

NoLocal == [prg |-> 0, season |-> 0]
\* How a call ended: the exception it raised, the _LOGGER.error calls it made
\* and the value it returned ("pending" until it returns; every return of the
\* entity's methods returns None).
NoOutcome == [raised |-> "none", errors |-> 0, returned |-> "pending"]

\* Fancoil.__init__ and the attributes ClimateEntity leaves None; the device
\* holds any of its start-up values.
Init ==
    /\ dev \in {(REG_PRG :> f) @@ (REG_SEASON :> s) @@ (REG_TARGET :> tt)
                   @@ (REG_CURRENT :> ct) @@ (REG_SPEED :> sp) @@ (REG_WATER :> w) :
                 f \in InitFlags, s \in InitSeason, tt \in InitTarget,
                 ct \in InitCurrent, sp \in InitSpeed, w \in InitWater}
    /\ attr_target_temperature = NoneVal
    /\ attr_current_temperature = NoneVal
    /\ attr_actual_air_speed = NoneVal
    /\ water_temperature = NoneVal
    /\ attr_fan_mode = "None"
    /\ attr_hvac_mode = "None"
    /\ pc = [t \in Tasks |-> "idle"]
    /\ op = [t \in Tasks |-> "none"]
    /\ arg = [t \in Tasks |-> NoneVal]
    /\ local = [t \in Tasks |-> NoLocal]
    /\ req = [t \in Tasks |-> NoReq]
    /\ ret = [t \in Tasks |-> NoRet]
    /\ pre = [t \in Tasks |-> Snapshot]
    /\ log = [t \in Tasks |-> << >>]
    /\ outcome = [t \in Tasks |-> NoOutcome]
    /\ nops = 0

\* ------------------------------------------------------------ steps

\* The task calls an operation of the entity: `first` is the hub call its
\* code reaches first and `out` the outcome so far (a call that returns or
\* raises before any await begins at label "idle" with its final outcome).
Begin(t, name, a, first, label, out) ==
    /\ pc[t] = "idle"
    /\ nops < MaxOps
    /\ nops' = nops + 1
    /\ op' = [op EXCEPT ![t] = name]
    /\ arg' = [arg EXCEPT ![t] = a]
    /\ pre' = [pre EXCEPT ![t] = Snapshot]
    /\ log' = [log EXCEPT ![t] = << >>]
    /\ outcome' = [outcome EXCEPT ![t] = out]
    /\ local' = [local EXCEPT ![t] = NoLocal]
    /\ ret' = [ret EXCEPT ![t] = NoRet]
    /\ req' = [req EXCEPT ![t] = first]
    /\ pc' = [pc EXCEPT ![t] = label]

\* The task is resumed at the await `label`, whose hub call has returned.
Resumed(t, label) == pc[t] = label /\ req[t].kind = "none"

\* The coroutine goes on to its next await.
Await(t, call, label) ==
    /\ req' = [req EXCEPT ![t] = call]
    /\ pc' = [pc EXCEPT ![t] = label]

\* The coroutine returns; `errs` counts the _LOGGER.error calls on the way.
Return(t, errs) ==
    /\ pc' = [pc EXCEPT ![t] = "idle"]
    /\ req' = [req EXCEPT ![t] = NoReq]
    /\ local' = [local EXCEPT ![t] = NoLocal]
    /\ outcome' = [outcome EXCEPT ![t].errors = @ + errs, ![t].returned = "None"]

\* _async_read_int16_from_register logs an error when the hub returned None.
ReadErrs(r) == IF r.ok THEN 0 ELSE 1

\* self._hub.async_pb_call: the hub performs the awaited call on the device.
\* A read returns the register or None; a write stores the value's 16 bits
\* and returns a result, or stores nothing and returns None.
HubCall(t) ==
    /\ req[t].kind # "none"
    /\ \E ok \in BOOLEAN :
        LET r == req[t].reg
            held == dev[r]
        IN  /\ IF req[t].kind = "write" /\ ok
               THEN dev' = [dev EXCEPT ![r] = req[t].val % WordSize]
               ELSE dev' = dev
            /\ ret' = [ret EXCEPT ![t] =
                         [ok |-> ok,
                          val |-> IF req[t].kind = "read" /\ ok THEN held ELSE 0]]
            /\ log' = [log EXCEPT ![t] =
                         Append(@, [kind |-> req[t].kind, reg |-> r,
                                    val |-> req[t].val, ok |-> ok, held |-> held])]
    /\ req' = [req EXCEPT ![t] = NoReq]
    /\ UNCHANGED <<cache, pc, op, arg, local, pre, outcome, nops>>

\* ---- async_update

async_update(t) ==
    /\ Begin(t, "update", NoneVal, ReadReq(REG_TARGET), "upd_231", NoOutcome)
    /\ UNCHANGED <<dev, cache>>

async_update_231(t) ==
    /\ Resumed(t, "upd_231")
    /\ attr_target_temperature' = Some(read_temp(ret[t]))
    /\ outcome' = [outcome EXCEPT ![t].errors = @ + ReadErrs(ret[t])]
    /\ Await(t, ReadReq(REG_CURRENT), "upd_0")
    /\ UNCHANGED <<dev, attr_current_temperature, attr_actual_air_speed,
                   water_temperature, attr_fan_mode, attr_hvac_mode,
                   op, arg, local, ret, pre, log, nops>>

async_update_0(t) ==
    /\ Resumed(t, "upd_0")
    /\ attr_current_temperature' = Some(read_temp(ret[t]))
    /\ outcome' = [outcome EXCEPT ![t].errors = @ + ReadErrs(ret[t])]
    /\ Await(t, ReadReq(REG_SPEED), "upd_15")
    /\ UNCHANGED <<dev, attr_target_temperature, attr_actual_air_speed,
                   water_temperature, attr_fan_mode, attr_hvac_mode,
                   op, arg, local, ret, pre, log, nops>>


\* A variant of async_update_15: a failed read of register 15 is tried again.
async_update_15_retry(t) ==
    /\ Resumed(t, "upd_15")
    /\ attr_actual_air_speed' = Some(read_int16(ret[t]))
    /\ outcome' = [outcome EXCEPT ![t].errors = @ + ReadErrs(ret[t])]
    /\ IF ret[t].ok
       THEN Await(t, ReadReq(REG_WATER), "upd_1")
       ELSE Await(t, ReadReq(REG_SPEED), "upd_15")
    /\ UNCHANGED <<dev, attr_target_temperature, attr_current_temperature,
                   water_temperature, attr_fan_mode, attr_hvac_mode,
                   op, arg, local, ret, pre, log, nops>>

async_update_15(t) ==
    /\ Resumed(t, "upd_15")
    /\ attr_actual_air_speed' = Some(read_int16(ret[t]))
    /\ outcome' = [outcome EXCEPT ![t].errors = @ + ReadErrs(ret[t])]
    /\ Await(t, ReadReq(REG_WATER), "upd_1")
    /\ UNCHANGED <<dev, attr_target_temperature, attr_current_temperature,
                   water_temperature, attr_fan_mode, attr_hvac_mode,
                   op, arg, local, ret, pre, log, nops>>

async_update_1(t) ==
    /\ Resumed(t, "upd_1")
    /\ water_temperature' = Some(read_int16(ret[t]))
    /\ outcome' = [outcome EXCEPT ![t].errors = @ + ReadErrs(ret[t])]
    /\ Await(t, ReadReq(REG_PRG), "upd_201")
    /\ UNCHANGED <<dev, attr_target_temperature, attr_current_temperature,
                   attr_actual_air_speed, attr_fan_mode, attr_hvac_mode,
                   op, arg, local, ret, pre, log, nops>>

async_update_201(t) ==
    /\ Resumed(t, "upd_201")
    /\ LET prg == read_int16(ret[t])
           i == fan_index_of_prg(prg)
       IN  IF i # 0
           THEN /\ attr_fan_mode' = attr_fan_modes[i]
                /\ local' = [local EXCEPT ![t].prg = prg]
                /\ outcome' = [outcome EXCEPT ![t].errors = @ + ReadErrs(ret[t])]
                /\ Await(t, ReadReq(REG_SEASON), "upd_233")
           ELSE /\ attr_fan_mode' = attr_fan_mode
                /\ Return(t, ReadErrs(ret[t]) + 1)
    /\ UNCHANGED <<dev, attr_target_temperature, attr_current_temperature,
                   attr_actual_air_speed, water_temperature, attr_hvac_mode,
                   op, arg, ret, pre, log, nops>>


\* A variant of async_update_233: bit 7 of the flags is looked at before the
\* season is decoded.
async_update_233_off_first(t) ==
    /\ Resumed(t, "upd_233")
    /\ LET season == read_int16(ret[t])
           mode == hvac_of_season(season)
       IN  IF is_set(local[t].prg, 7)
           THEN /\ attr_hvac_mode' = "off"
                /\ Return(t, ReadErrs(ret[t]))
           ELSE IF mode # "invalid"
           THEN /\ attr_hvac_mode' = mode
                /\ Return(t, ReadErrs(ret[t]))
           ELSE /\ attr_hvac_mode' = attr_hvac_mode
                /\ Return(t, ReadErrs(ret[t]) + 1)
    /\ UNCHANGED <<dev, attr_target_temperature, attr_current_temperature,
                   attr_actual_air_speed, water_temperature, attr_fan_mode,
                   op, arg, ret, pre, log, nops>>

async_update_233(t) ==
    /\ Resumed(t, "upd_233")
    /\ LET season == read_int16(ret[t])
           mode == hvac_of_season(season)
       IN  IF mode # "invalid"
           THEN /\ attr_hvac_mode' = IF is_set(local[t].prg, 7) THEN "off" ELSE mode
                /\ Return(t, ReadErrs(ret[t]))
           ELSE /\ attr_hvac_mode' = attr_hvac_mode
                /\ Return(t, ReadErrs(ret[t]) + 1)
    /\ UNCHANGED <<dev, attr_target_temperature, attr_current_temperature,
                   attr_actual_air_speed, water_temperature, attr_fan_mode,
                   op, arg, ret, pre, log, nops>>

\* ---- async_set_hvac_mode

async_set_hvac_mode(t) ==
    /\ \E hvac_mode \in HvacInputs :
        Begin(t, "set_hvac_mode", Some(hvac_mode), ReadReq(REG_PRG), "hvac_rd201",
              NoOutcome)
    /\ UNCHANGED <<dev, cache>>

async_set_hvac_mode_201(t) ==
    /\ Resumed(t, "hvac_rd201")
    /\ LET curr_prg == read_int16(ret[t])
           hvac_mode == arg[t][1]
           season == season_of_hvac(hvac_mode)
       IN  IF hvac_mode = "off"
           THEN /\ local' = [local EXCEPT ![t].prg = curr_prg]
                /\ outcome' = [outcome EXCEPT ![t].errors = @ + ReadErrs(ret[t])]
                /\ Await(t, WriteReq(REG_PRG, or_bit7(curr_prg)), "hvac_wr201_off")
           ELSE IF season # -1
           THEN /\ local' = [local EXCEPT ![t] = [prg |-> curr_prg, season |-> season]]
                /\ outcome' = [outcome EXCEPT ![t].errors = @ + ReadErrs(ret[t])]
                /\ Await(t, WriteReq(REG_PRG, and_not_bit7(curr_prg)), "hvac_wr201")
           ELSE Return(t, ReadErrs(ret[t]) + 1)
    /\ UNCHANGED <<dev, cache, op, arg, ret, pre, log, nops>>

async_set_hvac_mode_off_written(t) ==
    /\ Resumed(t, "hvac_wr201_off")
    /\ Return(t, 0)
    /\ UNCHANGED <<dev, cache, op, arg, ret, pre, log, nops>>

async_set_hvac_mode_201_written(t) ==
    /\ Resumed(t, "hvac_wr201")
    /\ Await(t, WriteReq(REG_SEASON, local[t].season), "hvac_wr233")
    /\ UNCHANGED <<dev, cache, op, arg, local, ret, pre, log, outcome, nops>>


\* A variant of async_set_hvac_mode_233_written: a failed season write rolls
\* the flags register back to what was read.
async_set_hvac_mode_233_rollback(t) ==
    /\ Resumed(t, "hvac_wr233")
    /\ IF write_ok(ret[t])
       THEN Return(t, 0)
       ELSE /\ Await(t, WriteReq(REG_PRG, local[t].prg), "hvac_wr201_off")
            /\ UNCHANGED <<local, outcome>>
    /\ UNCHANGED <<dev, cache, op, arg, ret, pre, log, nops>>

async_set_hvac_mode_233_written(t) ==
    /\ Resumed(t, "hvac_wr233")
    /\ Return(t, 0)
    /\ UNCHANGED <<dev, cache, op, arg, ret, pre, log, nops>>

\* ---- async_set_temperature

async_set_temperature(t) ==
    /\ \E target_temperature \in TempInputs :
        IF target_temperature = NoneVal
        THEN Begin(t, "set_temperature", target_temperature, NoReq, "idle",
                   [raised |-> "none", errors |-> 1, returned |-> "None"])
        ELSE Begin(t, "set_temperature", target_temperature,
                   WriteReq(REG_TARGET, int_times10(target_temperature[1])),
                   "temp_wr231", NoOutcome)
    /\ UNCHANGED <<dev, cache>>

async_set_temperature_written(t) ==
    /\ Resumed(t, "temp_wr231")
    /\ IF write_ok(ret[t])
       THEN /\ attr_target_temperature' = arg[t]
            /\ Return(t, 0)
       ELSE /\ attr_target_temperature' = attr_target_temperature
            /\ Return(t, 1)
    /\ UNCHANGED <<dev, attr_current_temperature, attr_actual_air_speed,
                   water_temperature, attr_fan_mode, attr_hvac_mode,
                   op, arg, ret, pre, log, nops>>

\* ---- async_set_fan_mode

async_set_fan_mode(t) ==
    /\ \E fan_mode \in FanInputs :
        IF fan_modes_index(fan_mode) = -1
        THEN Begin(t, "set_fan_mode", Some(fan_mode), NoReq, "idle",
                   [raised |-> "ValueError", errors |-> 0, returned |-> "pending"])
        ELSE Begin(t, "set_fan_mode", Some(fan_mode), ReadReq(REG_PRG), "fan_rd201",
                   NoOutcome)
    /\ UNCHANGED <<dev, cache>>

async_set_fan_mode_201(t) ==
    /\ Resumed(t, "fan_rd201")
    /\ LET curr_prg == prg_with_fan(read_int16(ret[t]), fan_modes_index(arg[t][1]))
       IN  /\ local' = [local EXCEPT ![t].prg = curr_prg]
           /\ Await(t, WriteReq(REG_PRG, curr_prg), "fan_wr201")
    /\ outcome' = [outcome EXCEPT ![t].errors = @ + ReadErrs(ret[t])]
    /\ UNCHANGED <<dev, cache, op, arg, ret, pre, log, nops>>


\* A variant of async_set_fan_mode_written: no optimistic update of the cache.
async_set_fan_mode_written_no_update(t) ==
    /\ Resumed(t, "fan_wr201")
    /\ IF Len(attr_fan_modes) # 0 /\ write_ok(ret[t])
       THEN Return(t, 0)
       ELSE Return(t, 1)
    /\ UNCHANGED <<dev, cache, op, arg, ret, pre, log, nops>>

async_set_fan_mode_written(t) ==
    /\ Resumed(t, "fan_wr201")
    /\ IF Len(attr_fan_modes) # 0 /\ write_ok(ret[t])
       THEN /\ attr_fan_mode' = arg[t][1]
            /\ Return(t, 0)
       ELSE /\ attr_fan_mode' = attr_fan_mode
            /\ Return(t, 1)
    /\ UNCHANGED <<dev, attr_target_temperature, attr_current_temperature,
                   attr_actual_air_speed, water_temperature, attr_hvac_mode,
                   op, arg, ret, pre, log, nops>>

\* ------------------------------------------------------------ specification

Step(t) ==
    \/ HubCall(t)
    \/ async_update(t)
    \/ async_update_231(t)
    \/ async_update_0(t)
    \/ async_update_15(t)
    \/ async_update_1(t)
    \/ async_update_201(t)
    \/ async_update_233(t)
    \/ async_set_hvac_mode(t)
    \/ async_set_hvac_mode_201(t)
    \/ async_set_hvac_mode_off_written(t)
    \/ async_set_hvac_mode_201_written(t)
    \/ async_set_hvac_mode_233_written(t)
    \/ async_set_temperature(t)
    \/ async_set_temperature_written(t)
    \/ async_set_fan_mode(t)
    \/ async_set_fan_mode_201(t)
    \/ async_set_fan_mode_written(t)

\* One operation at a time: the host awaits each call before the next.
Next == \E t \in SeqTasks : Step(t)

Spec == Init /\ [][Next]_vars

\* ------------------------------------------------------------ claims

FanModes == {"Auto", "Silent", "Night", "High"}

\* The operation `name` of task t has returned (or raised).
Done(t, name) == pc[t] = "idle" /\ op[t] = name

\* What the hub returned for the call logged as e.
LogRet(e) == [ok |-> e.ok, val |-> IF e.kind = "read" /\ e.ok THEN e.held ELSE 0]

\* Bit n of a register value, by arithmetic on the 16-bit word.
Bit(w, n) == ((w % WordSize) \div (2 ^ n)) % 2

AllOk(t) == \A i \in 1..Len(log[t]) : log[t][i].ok
SomeFailed(t) == \E i \in 1..Len(log[t]) : ~log[t][i].ok

\* Every read of the refresh succeeded; it read flags (call 5) and found an invalid fan pattern, or read
\* season (call 6) and found a value outside {0, 3, 5}.
RefreshAbandoned(t) ==
    /\ Done(t, "update")
    /\ AllOk(t)
    /\ \/ /\ Len(log[t]) = 5
          /\ log[t][5].ok
          /\ Bit(log[t][5].held, 2) = 1
       \/ /\ Len(log[t]) = 6
          /\ log[t][6].ok
          /\ log[t][6].held \notin {0, 3, 5}

\* C1: a refresh abandoned for an invalid fan pattern in register 201 or a
\* season register outside {0, 3, 5} leaves every cached field (target,
\* current and water temperature, fan speed, fan mode, hvac mode) as it was
\* before the call. The code has assigned the four sensor fields, and on an
\* invalid season the fan mode, before it returns.
C1_AbandonedRefreshKeepsState ==
    \A t \in SeqTasks : RefreshAbandoned(t) => Snapshot = pre[t]

\* C2: a read of 231, 0, 15 or 1 that fails at the transport leaves the field
\* derived from it at its last known value. The code publishes the marker
\* (-1, or -0.1 for a temperature).
C2_FailedReadKeepsField ==
    \A t \in SeqTasks :
        Done(t, "update") =>
            /\ ~log[t][1].ok => attr_target_temperature = pre[t].target_temperature
            /\ ~log[t][2].ok => attr_current_temperature = pre[t].current_temperature
            /\ ~log[t][3].ok => attr_actual_air_speed = pre[t].fan_speed
            /\ ~log[t][4].ok => water_temperature = pre[t].water_temperature

\* C3: every write of register 201 by set_fan_mode or set_hvac_mode agrees
\* with what the device held when the command read it on the bits the command
\* does not target (above bit 2 for the fan mode, all but bit 7 for the hvac
\* mode), whatever the read returned. After a failed read the code writes a
\* value built from the marker -1.
C3_FlagsWritePreservesOtherBits ==
    \A t \in SeqTasks :
        \A i \in 1..Len(log[t]) :
            LET e == log[t][i]
                h == log[t][1].held
            IN  (e.kind = "write" /\ e.reg = REG_PRG) =>
                    /\ op[t] = "set_fan_mode" => e.val \div 8 = h \div 8
                    /\ op[t] = "set_hvac_mode" =>
                           /\ e.val \div 256 = h \div 256
                           /\ e.val % 128 = h % 128

\* C4: after set_hvac_mode(m), m in {cool, heat, off}, with every transport
\* call successful the cached hvac_mode is m; after one with a failed call it
\* is unchanged. The code never assigns hvac_mode in set_hvac_mode.
C4_SetHvacModeUpdatesCache ==
    \A t \in SeqTasks :
        (Done(t, "set_hvac_mode") /\ arg[t][1] \in attr_hvac_modes) =>
            /\ AllOk(t) => attr_hvac_mode = arg[t][1]
            /\ SomeFailed(t) => attr_hvac_mode = pre[t].hvac_mode

\* C5: set_fan_mode(m) changes the cached fan_mode to m exactly when both its
\* read and its write of register 201 succeeded; otherwise the cached fan_mode
\* keeps its prior value. The code ignores the read's failure.
C5_SetFanModeCacheIffSuccess ==
    \A t \in SeqTasks :
        (Done(t, "set_fan_mode") /\ arg[t][1] \in FanModes) =>
            /\ AllOk(t) => attr_fan_mode = arg[t][1]
            /\ SomeFailed(t) => attr_fan_mode = pre[t].fan_mode

\* C6: set_temperature(v) makes exactly one hub call, a write of register 231
\* (so 231 is never re-read); when the write succeeded the cached
\* target_temperature is v, when it failed it is what it was before.
C6_SetTemperatureCache ==
    \A t \in SeqTasks :
        (op[t] = "set_temperature" /\ arg[t] # NoneVal) =>
            /\ \A i \in 1..Len(log[t]) :
                   i = 1 /\ log[t][i].kind = "write" /\ log[t][i].reg = REG_TARGET
            /\ Done(t, "set_temperature") =>
                   /\ Len(log[t]) = 1
                   /\ log[t][1].ok => attr_target_temperature = arg[t]
                   /\ ~log[t][1].ok =>
                          attr_target_temperature = pre[t].target_temperature

\* C6 witness: a successful set_temperature replaced a different cached value.
C6_Witness ==
    /\ Done("t1", "set_temperature")
    /\ Len(log["t1"]) = 1
    /\ log["t1"][1].ok
    /\ pre["t1"].target_temperature # NoneVal
    /\ pre["t1"].target_temperature # arg["t1"]
    /\ attr_target_temperature = arg["t1"]

\* A refresh whose six reads all succeeded on valid flags and season.
RefreshDecoded(t) ==
    /\ Done(t, "update")
    /\ Len(log[t]) = 6
    /\ AllOk(t)
    /\ Bit(log[t][5].held, 2) = 0
    /\ log[t][6].held \in {0, 3, 5}

\* C7: after a refresh whose reads all succeeded, with valid fan bits and a
\* season in {0, 3, 5}, hvac_mode is off if bit 7 of the flags is set, and
\* otherwise cool for season 5 and heat for season 0 or 3.
C7_RefreshHvacMode ==
    \A t \in SeqTasks :
        RefreshDecoded(t) =>
            attr_hvac_mode =
                IF Bit(log[t][5].held, 7) = 1 THEN "off"
                ELSE IF log[t][6].held = 5 THEN "cool"
                ELSE "heat"

\* C7 witness: bit 7 set over season 5, decoded as off.
C7_Witness ==
    /\ RefreshDecoded("t1")
    /\ Bit(log["t1"][5].held, 7) = 1
    /\ log["t1"][6].held = 5
    /\ attr_hvac_mode = "off"

\* The flags value a refresh or a command received from its read logged as e:
\* the register, or the marker -1 after a failed read.
Received(e) == IF e.ok THEN e.held ELSE -1

\* The fan mode of bits 0-1 of a flags word.
FanOfLowBits(w) ==
    CASE w % 4 = 0 -> "Auto"
      [] w % 4 = 1 -> "Silent"
      [] w % 4 = 2 -> "Night"
      [] w % 4 = 3 -> "High"

\* After the refresh has handled its flags read: a value with bit 2 set (the
\* marker of a failed read included) assigns no fan mode, logs an error and
\* ends the refresh before the season read; a value with bit 2 clear assigns
\* the mode of bits 0-1, whatever the bits above bit 2.
FanDecodeOfRefresh ==
    \A t \in SeqTasks :
        (op[t] = "update" /\ Len(log[t]) >= 5 /\ pc[t] # "upd_201") =>
            LET e == log[t][5]
            IN  IF ~e.ok \/ Bit(e.held, 2) = 1
                THEN /\ pc[t] = "idle"
                     /\ Len(log[t]) = 5
                     /\ attr_fan_mode = pre[t].fan_mode
                     /\ outcome[t].errors >= 1
                ELSE attr_fan_mode = FanOfLowBits(e.held)

\* C8 as stated: in every reachable state the cached fan_mode is one of Auto,
\* Silent, Night, High, and the refresh decodes the flags as FanDecodeOfRefresh
\* says. __init__ sets fan_mode to None, so the first half fails in the
\* initial state.
C8_FanModeAlwaysOneOfFour ==
    /\ attr_fan_mode \in FanModes
    /\ FanDecodeOfRefresh

\* C8, amended: in every reachable state the cached fan_mode is None (as
\* __init__ leaves it, until a refresh or a set_fan_mode first assigns it) or
\* one of Auto, Silent, Night, High; a refresh whose flags value has bit 2 set
\* assigns no fan mode and is an invalid-PRG read, and one with bit 2 clear
\* decodes bits 0-1 as 00 Auto, 01 Silent, 10 Night, 11 High, whatever the
\* bits above bit 2.
C8_FanModeNoneOrOneOfFour ==
    /\ attr_fan_mode \in FanModes \cup {"None"}
    /\ FanDecodeOfRefresh

\* C8 witness: flags 10 (bit 3 set above the fan bits, bit 1 alone below)
\* decoded as Night.
C8_Witness ==
    /\ op["t1"] = "update"
    /\ Len(log["t1"]) >= 5
    /\ pc["t1"] # "upd_201"
    /\ log["t1"][5].ok
    /\ log["t1"][5].held = 10
    /\ pre["t1"].fan_mode # "Night"
    /\ attr_fan_mode = "Night"

\* v is r with bit 7 forced to b, every other bit as in r.
SameButBit7(v, r, b) ==
    /\ v \div 256 = r \div 256
    /\ v % 128 = r % 128
    /\ (v \div 128) % 2 = b

\* C9: set_hvac_mode(off) issues exactly one write, to register 201, of the
\* flags value its read returned with bit 7 set, and no write to register 233.
C9_SetHvacOffSingleWrite ==
    \A t \in SeqTasks :
        (op[t] = "set_hvac_mode" /\ arg[t] = Some("off")) =>
            /\ \A i \in 1..Len(log[t]) :
                   IF i = 1
                   THEN log[t][i].kind = "read" /\ log[t][i].reg = REG_PRG
                   ELSE /\ i = 2
                        /\ log[t][i].kind = "write"
                        /\ log[t][i].reg = REG_PRG
                        /\ SameButBit7(log[t][i].val, Received(log[t][1]), 1)
            /\ Done(t, "set_hvac_mode") => Len(log[t]) = 2

\* C9 witness: set_hvac_mode(off) on flags with bit 7 clear, read and write
\* successful, the device now holding the flags with bit 7 added.
C9_Witness ==
    /\ Done("t1", "set_hvac_mode")
    /\ arg["t1"] = Some("off")
    /\ Len(log["t1"]) = 2
    /\ log["t1"][1].ok
    /\ log["t1"][2].ok
    /\ Bit(log["t1"][1].held, 7) = 0
    /\ dev[REG_PRG] = log["t1"][1].held + 128

\* C10: set_hvac_mode(cool) and set_hvac_mode(heat) write register 201 with
\* bit 7 cleared and only then register 233 with 5 (cool) or 0 (heat); they
\* make no other call, so after a successful flags write and a failed season
\* write nothing more is written: register 201 keeps the written flags and
\* register 233 what it held.
C10_SetHvacOnWriteOrder ==
    \A t \in SeqTasks :
        (op[t] = "set_hvac_mode" /\ arg[t] \in {Some("cool"), Some("heat")}) =>
            /\ Len(log[t]) <= 3
            /\ Len(log[t]) >= 1 =>
                   log[t][1].kind = "read" /\ log[t][1].reg = REG_PRG
            /\ Len(log[t]) >= 2 =>
                   /\ log[t][2].kind = "write"
                   /\ log[t][2].reg = REG_PRG
                   /\ SameButBit7(log[t][2].val, Received(log[t][1]), 0)
            /\ Len(log[t]) >= 3 =>
                   /\ log[t][3].kind = "write"
                   /\ log[t][3].reg = REG_SEASON
                   /\ log[t][3].val = IF arg[t] = Some("cool") THEN 5 ELSE 0
            /\ Done(t, "set_hvac_mode") =>
                   /\ Len(log[t]) = 3
                   /\ (log[t][2].ok /\ ~log[t][3].ok) =>
                          /\ dev[REG_PRG] = log[t][2].val % WordSize
                          /\ dev[REG_SEASON] = log[t][3].held

\* C10 witness: set_hvac_mode(cool) on a unit that was off whose flags write
\* succeeded and whose season write failed.
C10_Witness ==
    /\ Done("t1", "set_hvac_mode")
    /\ arg["t1"] = Some("cool")
    /\ Len(log["t1"]) = 3
    /\ log["t1"][1].ok
    /\ Bit(log["t1"][1].held, 7) = 1
    /\ log["t1"][2].ok
    /\ ~log["t1"][3].ok
    /\ dev[REG_PRG] = log["t1"][1].held - 128

\* A command of the entity and whether its argument is one it supports.
IsCommand(t) == op[t] \in {"set_temperature", "set_hvac_mode", "set_fan_mode"}
ArgSupported(t) ==
    CASE op[t] = "set_temperature" -> arg[t] # NoneVal
      [] op[t] = "set_hvac_mode" -> arg[t][1] \in attr_hvac_modes
      [] op[t] = "set_fan_mode" -> arg[t][1] \in FanModes
      [] OTHER -> TRUE

\* C11: a command given a value outside the supported set (an unknown fan or
\* hvac mode, no temperature) issues no register write, leaves every cached
\* field unchanged and ends with a failure handled locally (an error logged,
\* no exception raised to the caller). set_fan_mode raises the ValueError of
\* list.index instead.
C11_UnsupportedValueHandledLocally ==
    \A t \in SeqTasks :
        (IsCommand(t) /\ ~ArgSupported(t)) =>
            /\ \A i \in 1..Len(log[t]) : log[t][i].kind # "write"
            /\ Snapshot = pre[t]
            /\ outcome[t].raised = "none"
            /\ pc[t] = "idle" => outcome[t].errors >= 1

\* C12: a command returns to its caller an outcome that is a failure when one
\* of its transport calls failed and a success when all of them succeeded.
\* Every return of the three commands returns None.
C12_CommandReturnsOutcome ==
    \A t \in SeqTasks :
        (IsCommand(t) /\ ArgSupported(t) /\ pc[t] = "idle") =>
            /\ SomeFailed(t) => outcome[t].returned \in {"Fail", "False", "None"}
            /\ AllOk(t) => outcome[t].returned \in {"Success", "True"}

\* C13: whatever set_fan_mode(m) read, the flags value it writes (and the
\* 16-bit word the device stores for it) decodes under the refresh's fan
\* decode to m; and for the flags f the device holds, encoding any mode over
\* f decodes to that mode, the mode f itself decodes to included.
C13_FanEncodeDecode ==
    /\ \A t \in SeqTasks :
           op[t] = "set_fan_mode" =>
               \A i \in 1..Len(log[t]) :
                   log[t][i].kind = "write" =>
                       /\ fan_index_of_prg(log[t][i].val) # 0
                       /\ attr_fan_modes[fan_index_of_prg(log[t][i].val)] = arg[t][1]
                       /\ fan_index_of_prg(log[t][i].val % WordSize)
                              = fan_index_of_prg(log[t][i].val)
    /\ \A f \in {dev[REG_PRG], -1} :
           /\ \A m \in 0..3 : fan_index_of_prg(prg_with_fan(f, m)) = m + 1
           /\ fan_index_of_prg(f) # 0 =>
                  fan_index_of_prg(prg_with_fan(f, fan_index_of_prg(f) - 1))
                      = fan_index_of_prg(f)

\* C13 witness: set_fan_mode(High) over flags 10 (Night, bit 3 set), read and
\* write successful, the device now holding 11.
C13_Witness ==
    /\ Done("t1", "set_fan_mode")
    /\ arg["t1"] = Some("High")
    /\ Len(log["t1"]) = 2
    /\ log["t1"][1].ok
    /\ log["t1"][1].held = 10
    /\ log["t1"][2].ok
    /\ dev[REG_PRG] = 11

\* The nearest integers to v / 10 (v in hundredths): within half a tenth.
NearestTenth(raw, v) == 10 * raw - v <= 5 /\ v - 10 * raw <= 5

\* C15: set_temperature(v) writes to register 231 the integer nearest to
\* v * 10. The code truncates: int(21.56 * 10) is 215.
C15_SetTemperatureRounds ==
    \A t \in SeqTasks :
        (op[t] = "set_temperature" /\ arg[t] # NoneVal) =>
            \A i \in 1..Len(log[t]) :
                log[t][i].kind = "write" => NearestTenth(log[t][i].val, arg[t][1])

\* The order of the refresh's reads.
ReadOrder == <<REG_TARGET, REG_CURRENT, REG_SPEED, REG_WATER, REG_PRG, REG_SEASON>>

\* The refresh's calls so far are reads, of the first registers of ReadOrder
\* in that order, and the call awaited is the read of the next one: a read is
\* issued only when the one before has returned, and none is repeated.
RefreshReadsInOrder(t) ==
    /\ Len(log[t]) <= 6
    /\ \A i \in 1..Len(log[t]) :
           log[t][i].kind = "read" /\ log[t][i].reg = ReadOrder[i]
    /\ req[t].kind # "none" =>
           /\ Len(log[t]) < 6
           /\ req[t] = ReadReq(ReadOrder[Len(log[t]) + 1])

\* C17 as stated: every refresh reads 231, 0, 15, 1, 201, 233, each once
\* (taken here for the refreshes whose reads all succeed). A refresh that
\* finds an invalid fan pattern returns before it reads 233.
C17_RefreshReadsAllSix ==
    \A t \in SeqTasks :
        op[t] = "update" =>
            /\ RefreshReadsInOrder(t)
            /\ (pc[t] = "idle" /\ AllOk(t)) => Len(log[t]) = 6

\* C17, amended: every refresh issues its reads in the order 231, 0, 15, 1,
\* 201, 233, each address at most once and each only after the previous read
\* has returned, with no retry of a failed read; a refresh whose flags value
\* is no valid fan pattern (a failed read of 201 included) ends after the read
\* of 201, every other refresh reads all six.
C17_RefreshReadsInOrder ==
    \A t \in SeqTasks :
        op[t] = "update" =>
            /\ RefreshReadsInOrder(t)
            /\ pc[t] = "idle" =>
                   /\ Len(log[t]) >= 5
                   /\ Len(log[t]) = 5 <=>
                          (~log[t][5].ok \/ Bit(log[t][5].held, 2) = 1)

\* C17 witness: a refresh that read all six registers although its read of
\* register 0 failed.
C17_Witness ==
    /\ Done("t1", "update")
    /\ Len(log["t1"]) = 6
    /\ ~log["t1"][2].ok
    /\ log["t1"][6].ok

\* C18: when the season value the refresh read is outside {0, 3, 5} (a failed
\* read gives -1), the cached hvac_mode keeps its previous value, also when
\* bit 7 of the flags is set.
C18_InvalidSeasonKeepsHvacMode ==
    \A t \in SeqTasks :
        (Done(t, "update") /\ Len(log[t]) = 6
           /\ Received(log[t][6]) \notin {0, 3, 5}) =>
            attr_hvac_mode = pre[t].hvac_mode

\* C18 witness: flags 129 (bit 7 set) over season 9, hvac_mode left as it was.
C18_Witness ==
    /\ Done("t1", "update")
    /\ Len(log["t1"]) = 6
    /\ AllOk("t1")
    /\ Bit(log["t1"][5].held, 7) = 1
    /\ log["t1"][6].held = 9
    /\ attr_hvac_mode # "off"

\* ------------------------------------------------------------ two calls

\* The task has made no call of the entity yet.
Once(t) == op[t] = "none"

\* The call of task u has returned and task t has made none.
After(t, u) == Once(t) /\ op[u] # "none" /\ pc[u] = "idle"

\* A command awaited to its end by the first task, then a refresh by the
\* second: both calls' records are kept side by side.
NextRoundTrip ==
    \/ \E t \in Tasks : HubCall(t)
    \/ Once("t1") /\ async_set_temperature("t1")
    \/ async_set_temperature_written("t1")
    \/ Once("t1") /\ async_set_hvac_mode("t1")
    \/ async_set_hvac_mode_201("t1")
    \/ async_set_hvac_mode_off_written("t1")
    \/ async_set_hvac_mode_201_written("t1")
    \/ async_set_hvac_mode_233_written("t1")
    \/ Once("t1") /\ async_set_fan_mode("t1")
    \/ async_set_fan_mode_201("t1")
    \/ async_set_fan_mode_written("t1")
    \/ After("t2", "t1") /\ async_update("t2")
    \/ async_update_231("t2")
    \/ async_update_0("t2")
    \/ async_update_15("t2")
    \/ async_update_1("t2")
    \/ async_update_201("t2")
    \/ async_update_233("t2")

SpecRoundTrip == Init /\ [][NextRoundTrip]_vars

\* The hub serialises its calls (one request in flight at a time), and the
\* code between the return of a hub call and the coroutine's next await runs
\* without suspension: no other hub call is performed while a task holds a
\* returned result it has not yet handled.
HubSerialized(t) ==
    \A u \in Tasks \ {t} : ~(pc[u] # "idle" /\ req[u].kind = "none")

\* Two calls on the same entity whose coroutines interleave at their awaits:
\* each task makes one call that reads and writes register 201 (set_fan_mode,
\* set_hvac_mode); the second task may run a refresh instead.
NextConcurrent ==
    \/ \E t \in Tasks : HubSerialized(t) /\ HubCall(t)
    \/ \E t \in Tasks : Once(t) /\ async_set_hvac_mode(t)
    \/ \E t \in Tasks : async_set_hvac_mode_201(t)
    \/ \E t \in Tasks : async_set_hvac_mode_off_written(t)
    \/ \E t \in Tasks : async_set_hvac_mode_201_written(t)
    \/ \E t \in Tasks : async_set_hvac_mode_233_written(t)
    \/ \E t \in Tasks : Once(t) /\ async_set_fan_mode(t)
    \/ \E t \in Tasks : async_set_fan_mode_201(t)
    \/ \E t \in Tasks : async_set_fan_mode_written(t)
    \/ Once("t2") /\ async_update("t2")
    \/ async_update_231("t2")
    \/ async_update_0("t2")
    \/ async_update_15("t2")
    \/ async_update_1("t2")
    \/ async_update_201("t2")
    \/ async_update_233("t2")

SpecConcurrent == Init /\ [][NextConcurrent]_vars

\* ------------------------------------------------------------ claims on two calls

\* C14: for every temperature v of one decimal in [-3276.8, 3276.7], the raw
\* value set_temperature(v) wrote to register 231, read back and decoded by
\* the next refresh, is v again. The refresh takes raw 0 for "no value" and
\* publishes -1 for v = 0.0 (and reads the register unsigned, so that a
\* negative v written as a 16-bit word comes back above 3276.7).
C14_TemperatureRoundTrip ==
    (/\ Done("t1", "set_temperature")
     /\ arg["t1"] # NoneVal
     /\ Len(log["t1"]) = 1
     /\ log["t1"][1].ok
     /\ op["t2"] = "update"
     /\ Len(log["t2"]) >= 1
     /\ log["t2"][1].ok
     /\ pc["t2"] # "upd_231") =>
        LET v == arg["t1"][1]
        IN  (v % 10 = 0 /\ v >= -327680 /\ v <= 327670) =>
                attr_target_temperature = Some(v)

\* C19: after set_hvac_mode(m), m in {cool, heat, off}, with every transport
\* call successful on flags with valid fan bits (and, for off, a season in
\* {0, 3, 5}), the next refresh whose reads all succeed publishes hvac_mode m.
C19_SetHvacModeThenRefresh ==
    (/\ Done("t1", "set_hvac_mode")
     /\ arg["t1"][1] \in attr_hvac_modes
     /\ AllOk("t1")
     /\ Bit(log["t1"][1].held, 2) = 0
     /\ arg["t1"][1] = "off" => dev[REG_SEASON] \in {0, 3, 5}
     /\ Done("t2", "update")
     /\ AllOk("t2")) =>
        /\ Len(log["t2"]) = 6
        /\ attr_hvac_mode = arg["t1"][1]

\* C19 witness: set_hvac_mode(cool) on a unit that was off (flags 129) in the
\* heating season 3, then a refresh that publishes cool.
C19_Witness ==
    /\ Done("t1", "set_hvac_mode")
    /\ arg["t1"] = Some("cool")
    /\ AllOk("t1")
    /\ log["t1"][1].held = 129
    /\ log["t1"][3].held = 3
    /\ Done("t2", "update")
    /\ AllOk("t2")
    /\ attr_hvac_mode = "cool"

\* Both tasks have returned from a command on register 201, every transport
\* call of both successful: one set the fan mode, the other the hvac mode.
FanAndHvacDone(f, h) ==
    /\ Done(f, "set_fan_mode")
    /\ arg[f][1] \in FanModes
    /\ Done(h, "set_hvac_mode")
    /\ arg[h][1] \in attr_hvac_modes
    /\ AllOk(f)
    /\ AllOk(h)

\* C16: when set_fan_mode and set_hvac_mode run concurrently on one entity
\* and every transport call succeeds, no access of the other command falls
\* between a command's read of register 201 and its write-back, so the final
\* register holds the fan bits of the one and bit 7 of the other. Nothing in
\* the code serialises the two coroutines.
C16_ConcurrentCommandsBothApplied ==
    \A f, h \in Tasks :
        FanAndHvacDone(f, h) =>
            /\ Bit(dev[REG_PRG], 2) = 0
            /\ FanOfLowBits(dev[REG_PRG]) = arg[f][1]
            /\ Bit(dev[REG_PRG], 7) = IF arg[h][1] = "off" THEN 1 ELSE 0

\* A refresh by the second task and a set_fan_mode by the first have both
\* returned, every transport call of both successful.
RefreshAndFanDone ==
    /\ Done("t1", "set_fan_mode")
    /\ arg["t1"][1] \in FanModes
    /\ AllOk("t1")
    /\ Done("t2", "update")
    /\ AllOk("t2")

\* C20: after a refresh and a set_fan_mode(m) on one entity have both
\* returned, in any interleaving of their transport calls, all successful,
\* the cached fan_mode is the mode of bits 0-2 of the device's register 201.
C20_RefreshAndSetFanModeAgree ==
    RefreshAndFanDone =>
        /\ Bit(dev[REG_PRG], 2) = 0
        /\ attr_fan_mode = FanOfLowBits(dev[REG_PRG])
        /\ attr_fan_mode = arg["t1"][1]

\* C20 witness: the refresh read the flags before the command wrote them
\* (it saw another fan mode than the register now holds) and read the season
\* after the command had begun.
C20_Witness ==
    /\ RefreshAndFanDone
    /\ Len(log["t2"]) = 6
    /\ FanOfLowBits(log["t2"][5].held) # FanOfLowBits(dev[REG_PRG])
    /\ pre["t1"].current_temperature = NoneVal
    /\ pre["t1"].target_temperature # NoneVal
    /\ attr_fan_mode = arg["t1"][1]

====
